---- MODULE Spec2Model ----
(***************************************************************************)
(* Model of the manufacturing-efficiency dashboard helpers                  *)
(* (static/js/main.js) and of the efficiency pipeline the README declares   *)
(* (data_processor.py / efficiency_analyzer.py).                            *)
(*                                                                          *)
(* Four specifications share the variables:                                 *)
(*   SpecClassify  getBottleneckLevel / getBottleneckLevelHTML              *)
(*   SpecDate      formatDate / getDateRange                                *)
(*   SpecMetric    the Metric Engine (one unit, one window)                 *)
(*   SpecBatch     the batch pipeline: normalise, compute, report           *)
(* Each Init puts the other parts in their idle value and every action      *)
(* leaves them unchanged.                                                   *)
(***************************************************************************)
EXTENDS Integers, Sequences, FiniteSets, TLC

VARIABLES
    score,          \* argument of the bottleneck classifiers (a JS value)
    levelText,      \* value returned by getBottleneckLevel(score), or Idle
    levelHTML,      \* value returned by getBottleneckLevelHTML(score), or Idle
    now,            \* time value read by `new Date()` in getDateRange
    tz,             \* local time zone of the browser
    days,           \* argument of getDateRange (a JS value)
    range,          \* completion of getDateRange(days), or Idle
    rec,            \* aggregated inputs of one unit over one window
    metric,         \* outcome of the Metric Engine on rec, or Idle
    batch,          \* raw records of a batch run
    pc,             \* position of the batch pipeline
    idx,            \* next raw record / next window to process
    normalized,     \* indices of the raw records that were normalised
    report          \* final report: record gaps and per-window outcomes

classifyVars == <<score, levelText, levelHTML>>
dateVars     == <<now, tz, days, range>>
metricVars   == <<rec, metric>>
batchVars    == <<batch, pc, idx, normalized, report>>
vars == <<score, levelText, levelHTML, now, tz, days, range, rec, metric,
          batch, pc, idx, normalized, report>>

Idle == "idle"

ClassifyIdle == score = Idle /\ levelText = Idle /\ levelHTML = Idle
DateIdle     == now = Idle /\ tz = Idle /\ days = Idle /\ range = Idle
MetricIdle   == rec = Idle /\ metric = Idle
BatchIdle    == batch = Idle /\ pc = Idle /\ idx = Idle /\ normalized = Idle
                /\ report = Idle

(***************************************************************************)
(* JavaScript values that reach the classifiers.  Numbers are carried in    *)
(* hundredths (4.5 is 450); 4.5 and 2.5 are exact binary doubles, so the    *)
(* comparison of a decimal score against them is exact.                     *)
(***************************************************************************)
MaxScore == 700

Num(v) == [kind |-> "number", v |-> v]
JsNaN       == [kind |-> "NaN", v |-> 0]
JsUndefined == [kind |-> "undefined", v |-> 0]
JsNull      == [kind |-> "null", v |-> 0]
JsPosInf    == [kind |-> "Infinity", v |-> 0]
JsNegInf    == [kind |-> "-Infinity", v |-> 0]

Scores == {Num(v) : v \in (-MaxScore)..MaxScore}
          \cup {JsNaN, JsUndefined, JsNull, JsPosInf, JsNegInf}

\* ToNumber of the operand of a relational comparison
ToNumber(x) ==
    CASE x.kind = "undefined" -> JsNaN
      [] x.kind = "null"      -> Num(0)
      [] OTHER                -> x

\* x > y for a JS value x and a finite number y (in hundredths):
\* a comparison with NaN is undefined, which `if` takes as false
JsGreater(x, y) ==
    LET n == ToNumber(x) IN
    CASE n.kind = "NaN"       -> FALSE
      [] n.kind = "Infinity"  -> TRUE
      [] n.kind = "-Infinity" -> FALSE
      [] OTHER                -> n.v > y

\* the labels: '严重', '中等', '轻微' in the source
Severe   == "severe"
Moderate == "moderate"
Minor    == "minor"
Labels == {Severe, Moderate, Minor}

SevereAbove   == 450
ModerateAbove == 250

Span(class, label) == "<span class=\"" \o class \o "\">" \o label \o "</span>"

getBottleneckLevelHTML_ge(s) ==
    IF JsGreater(s, SevereAbove - 1)
    THEN Span("text-danger", Severe)
    ELSE IF JsGreater(s, ModerateAbove)
         THEN Span("text-warning", Moderate)
         ELSE Span("text-success", Minor)

getBottleneckLevelHTML(s) ==
    IF JsGreater(s, SevereAbove)
    THEN Span("text-danger", Severe)
    ELSE IF JsGreater(s, ModerateAbove)
         THEN Span("text-warning", Moderate)
         ELSE Span("text-success", Minor)

getBottleneckLevel_ge(s) ==
    IF JsGreater(s, SevereAbove)
    THEN Severe
    ELSE IF JsGreater(s, ModerateAbove - 1)
         THEN Moderate
         ELSE Minor

getBottleneckLevel_nan(s) ==
    IF JsGreater(s, SevereAbove)
    THEN Severe
    ELSE IF JsGreater(s, ModerateAbove) \/ ToNumber(s).kind = "NaN"
         THEN Moderate
         ELSE Minor

getBottleneckLevel(s) ==
    IF JsGreater(s, SevereAbove)
    THEN Severe
    ELSE IF JsGreater(s, ModerateAbove)
         THEN Moderate
         ELSE Minor

InitClassify ==
    /\ score \in Scores
    /\ levelText = Idle
    /\ levelHTML = Idle
    /\ DateIdle /\ MetricIdle /\ BatchIdle

CallGetBottleneckLevel ==
    /\ levelText = Idle
    /\ levelText' = getBottleneckLevel(score)
    /\ UNCHANGED <<score, levelHTML, dateVars, metricVars, batchVars>>

CallGetBottleneckLevelHTML ==
    /\ levelHTML = Idle
    /\ levelHTML' = getBottleneckLevelHTML(score)
    /\ UNCHANGED <<score, levelText, dateVars, metricVars, batchVars>>

\* the page renders the next score
NextScore ==
    /\ levelText # Idle
    /\ levelHTML # Idle
    /\ score' \in Scores
    /\ levelText' = Idle
    /\ levelHTML' = Idle
    /\ UNCHANGED <<dateVars, metricVars, batchVars>>

NextClassify ==
    \/ CallGetBottleneckLevel
    \/ CallGetBottleneckLevelHTML
    \/ NextScore

SpecClassify == InitClassify /\ [][NextClassify]_vars

IsNumber(x) == x.kind = "number"

\* C1: on the 0-5 scale getBottleneckLevel(s) is severe exactly when
\* s > 4.5, moderate exactly when 2.5 < s <= 4.5 and minor exactly when
\* s <= 2.5; 4.6, 2.6 and 1.0 give severe, moderate and minor, and the
\* boundary values 4.5 and 2.5 give moderate and minor.
C1_Thresholds ==
    (levelText # Idle /\ IsNumber(score) /\ score.v >= 0 /\ score.v <= 500) =>
        /\ (levelText = Severe)   <=> (score.v > 450)
        /\ (levelText = Moderate) <=> (250 < score.v /\ score.v <= 450)
        /\ (levelText = Minor)    <=> (score.v <= 250)
        /\ score.v = 460 => levelText = Severe
        /\ score.v = 260 => levelText = Moderate
        /\ score.v = 100 => levelText = Minor
        /\ score.v = 450 => levelText = Moderate
        /\ score.v = 250 => levelText = Minor

C1_Witness == score = Num(250) /\ levelText = Minor

ClassOf(label) ==
    CASE label = Severe   -> "text-danger"
      [] label = Moderate -> "text-warning"
      [] OTHER            -> "text-success"

\* C8: the two classifiers agree: getBottleneckLevelHTML(s) is the span
\* whose text is getBottleneckLevel(s) and whose class is the colour of
\* that label.
C8_ClassifiersAgree ==
    (levelText # Idle /\ levelHTML # Idle) =>
        /\ levelText \in Labels
        /\ levelHTML = "<span class=\"" \o ClassOf(levelText) \o "\">"
                       \o levelText \o "</span>"

C8_Witness ==
    /\ score = Num(450)
    /\ levelText = Moderate
    /\ levelHTML = "<span class=\"text-warning\">moderate</span>"

HTMLLabels == {Span("text-danger", Severe), Span("text-warning", Moderate),
               Span("text-success", Minor)}

NonComparable(x) == x.kind \in {"NaN", "undefined"}

\* C10: the classifiers are total and validate no range: every score,
\* outside 0-5 or non-comparable (NaN, undefined) included, gets one of
\* the three labels; every score above 5 is severe and every negative or
\* non-comparable score is minor.
C10_Total ==
    /\ levelText # Idle =>
        /\ levelText \in Labels
        /\ ((IsNumber(score) /\ score.v > 500) \/ score = JsPosInf)
               => levelText = Severe
        /\ ((IsNumber(score) /\ score.v < 0) \/ score = JsNegInf
              \/ NonComparable(score)) => levelText = Minor
    /\ levelHTML # Idle =>
        /\ levelHTML \in HTMLLabels
        /\ ((IsNumber(score) /\ score.v > 500) \/ score = JsPosInf)
               => levelHTML = Span("text-danger", Severe)
        /\ ((IsNumber(score) /\ score.v < 0) \/ score = JsNegInf
              \/ NonComparable(score)) => levelHTML = Span("text-success", Minor)

C10_Witness ==
    /\ score = JsUndefined
    /\ levelText = Minor
    /\ levelHTML = Span("text-success", Minor)

(***************************************************************************)
(* Dates.  A time value (ECMAScript: milliseconds since the epoch, or NaN)  *)
(* is carried as the pair of its day number and the milliseconds within     *)
(* that day, so that the whole range of Date fits machine integers.         *)
(***************************************************************************)
msPerDay    == 86400000
msPerHour   == 3600000
msPerMinute == 60000
msPerSecond == 1000
MaxTimeDay  == 100000000     \* TimeClip: |t| <= 8.64e15 ms = 1e8 days

TV(day, ms) == [valid |-> TRUE, day |-> day, ms |-> ms]
InvalidDate == [valid |-> FALSE, day |-> 0, ms |-> 0]

\* t + delta milliseconds, |delta| below a few days
AddMs(t, delta) ==
    LET total == t.ms + delta IN
    TV(t.day + (total \div msPerDay), total % msPerDay)

TLess(a, b) == a.day < b.day \/ (a.day = b.day /\ a.ms < b.ms)

TimeClip(t) ==
    IF \/ ~t.valid
       \/ t.day > MaxTimeDay
       \/ (t.day = MaxTimeDay /\ t.ms > 0)
       \/ t.day < -MaxTimeDay
    THEN InvalidDate
    ELSE t

\* a time zone with one change of offset at the instant T (UTC); a zone
\* with a fixed offset has before = after
Zone(T, before, after) == [T |-> T, before |-> before, after |-> after]

LocalTZA_utc(t, zone) == IF TLess(t, zone.T) THEN zone.before ELSE zone.after

LocalTime(t, zone) == AddMs(t, LocalTZA_utc(t, zone))

\* UTC(t) for a local time t: a local time that occurs twice is the earlier
\* instant, a local time that is skipped is read with the offset before
\* the transition
UTC(t, zone) ==
    LET u1 == AddMs(t, -zone.before)
        u2 == AddMs(t, -zone.after)
    IN  IF TLess(u1, zone.T) THEN u1
        ELSE IF ~TLess(u2, zone.T) THEN u2
        ELSE u1

DaysInYear(y) ==
    IF y % 4 # 0 THEN 365
    ELSE IF y % 100 # 0 THEN 366
    ELSE IF y % 400 # 0 THEN 365
    ELSE 366

InLeapYear(y) == IF DaysInYear(y) = 366 THEN 1 ELSE 0

DayFromYear(y) ==
    365 * (y - 1970) + ((y - 1969) \div 4) - ((y - 1901) \div 100)
        + ((y - 1601) \div 400)

\* YearFromTime: the year y with DayFromYear(y) <= day < DayFromYear(y+1),
\* computed from the 400-year cycle counted from 0000-03-01
YearFromDay(day) ==
    LET z   == day + 719468
        era == z \div 146097
        doe == z % 146097
        yoe == (doe - (doe \div 1460) + (doe \div 36524) - (doe \div 146096))
               \div 365
        doy == doe - (365 * yoe + (yoe \div 4) - (yoe \div 100))
        y   == yoe + era * 400
    IN  IF doy >= 306 THEN y + 1 ELSE y

DayWithinYear(day) == day - DayFromYear(YearFromDay(day))

MonthStart == <<0, 31, 59, 90, 120, 151, 181, 212, 243, 273, 304, 334>>

\* first day within the year of month m (0..11), 365 + leap for m = 12
MonthStartDay(m, leap) ==
    IF m = 12 THEN 365 + leap
    ELSE MonthStart[m + 1] + (IF m >= 2 THEN leap ELSE 0)

MonthFromDay(day) ==
    LET d    == DayWithinYear(day)
        leap == InLeapYear(YearFromDay(day))
    IN  CHOOSE m \in 0..11 :
            MonthStartDay(m, leap) <= d /\ d < MonthStartDay(m + 1, leap)

DateFromDay(day) ==
    DayWithinYear(day)
      - MonthStartDay(MonthFromDay(day), InLeapYear(YearFromDay(day))) + 1

\* MakeDay(year, month, date) for finite arguments
MakeDay(year, month, date) ==
    LET ym == year + (month \div 12)
        mn == month % 12
    IN  DayFromYear(ym) + MonthStartDay(mn, InLeapYear(ym)) + date - 1

\* Date.prototype.getDate: the day of the month in local time
getDate(t, zone) == DateFromDay(LocalTime(t, zone).day)

\* a - x for a number a and a JS value x
JsSub(a, x) ==
    LET n == ToNumber(x) IN
    CASE n.kind = "number"    -> Num(a - n.v)
      [] n.kind = "Infinity"  -> JsNegInf
      [] n.kind = "-Infinity" -> JsPosInf
      [] OTHER                -> JsNaN

\* Date.prototype.setDate(dt): the time value the date holds afterwards
setDate(t, dt, zone) ==
    IF ~t.valid THEN InvalidDate
    ELSE IF dt.kind # "number" THEN InvalidDate
    ELSE LET local   == LocalTime(t, zone)
             newDay  == MakeDay(YearFromDay(local.day), MonthFromDay(local.day),
                                dt.v)
         IN  IF newDay > 2 * MaxTimeDay \/ newDay < -(2 * MaxTimeDay)
             THEN InvalidDate
             ELSE TimeClip(UTC(TV(newDay, local.ms), zone))

Digits == <<"0", "1", "2", "3", "4", "5", "6", "7", "8", "9">>

\* n in decimal, padded with zeros to w characters
Pad(n, w) == [i \in 1..w |-> Digits[((n \div (10 ^ (w - i))) % 10) + 1]]

YearString(y) ==
    IF 0 <= y /\ y <= 9999 THEN Pad(y, 4)
    ELSE IF y > 0 THEN <<"+">> \o Pad(y, 6)
    ELSE <<"-">> \o Pad(-y, 6)

\* Date.prototype.toISOString of a valid time value (UTC fields)
toISOString(t) ==
    YearString(YearFromDay(t.day)) \o <<"-">>
      \o Pad(MonthFromDay(t.day) + 1, 2) \o <<"-">>
      \o Pad(DateFromDay(t.day), 2) \o <<"T">>
      \o Pad(t.ms \div msPerHour, 2) \o <<":">>
      \o Pad((t.ms \div msPerMinute) % 60, 2) \o <<":">>
      \o Pad((t.ms \div msPerSecond) % 60, 2) \o <<".">>
      \o Pad(t.ms % msPerSecond, 3) \o <<"Z">>

\* s.split(sep)[0]
SplitFirst(s, sep) ==
    LET at == {i \in 1..Len(s) : s[i] = sep} IN
    IF at = {} THEN s
    ELSE SubSeq(s, 1, (CHOOSE i \in at : \A j \in at : i <= j) - 1)

formatDate_noSplit(date) == toISOString(date)

formatDate(date) == SplitFirst(toISOString(date), "T")

DefaultDays == 30

Return(v) == [kind |-> "return", value |-> v]
Throw(e)  == [kind |-> "throw", value |-> e]
NotCalled == [kind |-> "idle", value |-> Idle]

\* the two dates of getDateRange(d): endDate reads the clock, startDate
\* reads it `lag` milliseconds later and is moved back by setDate
EndDate(clock) == clock.t

StartDate(d, clock, zone) ==
    LET daysArg == IF d.kind = "undefined" THEN Num(DefaultDays) ELSE d
        read    == AddMs(clock.t, clock.lag)
    IN  setDate(read, JsSub(getDate(read, zone), daysArg), zone)

\* toISOString throws a RangeError on an invalid date
getDateRange(d, clock, zone) ==
    LET startDate == StartDate(d, clock, zone)
        endDate   == EndDate(clock)
    IN  IF ~startDate.valid \/ ~endDate.valid
        THEN Throw("RangeError")
        ELSE Return([start_time |-> formatDate(startDate),
                     end_time   |-> formatDate(endDate)])

MaxDays == 3
MaxLag  == 1

\* instants of the clock: around the two changes of offset of 2026 in
\* New York, a leap day, a new year and the last day of year 9999
NowDays  == {20520, 20521, 20758, 20759, 19783, 20454, 2932896}
NowTimes == {0, 30 * msPerMinute, 12 * msPerHour,
             23 * msPerHour + 30 * msPerMinute, msPerDay - 1}

Zones == {Zone(TV(0, 0), 0, 0),
          Zone(TV(0, 0), 8 * msPerHour, 8 * msPerHour),
          Zone(TV(20520, 7 * msPerHour), -5 * msPerHour, -4 * msPerHour),
          Zone(TV(20758, 6 * msPerHour), -4 * msPerHour, -5 * msPerHour)}

DaysArgs == {Num(n) : n \in (-MaxDays)..MaxDays}
            \cup {JsUndefined, JsNull, JsNaN, JsPosInf, Num(30), Num(1000000),
                  Num(-3000000), Num(200000000)}

InitDate ==
    /\ now \in [t : {TV(d, m) : d \in NowDays, m \in NowTimes}, lag : 0..MaxLag]
    /\ tz \in Zones
    /\ days \in DaysArgs
    /\ range = NotCalled
    /\ ClassifyIdle /\ MetricIdle /\ BatchIdle

CallGetDateRange ==
    /\ range = NotCalled
    /\ range' = getDateRange(days, now, tz)
    /\ UNCHANGED <<now, tz, days, classifyVars, metricVars, batchVars>>

\* the page asks for another range later
NextRange ==
    /\ range # NotCalled
    /\ days' \in DaysArgs
    /\ range' = NotCalled
    /\ UNCHANGED <<now, tz, classifyVars, metricVars, batchVars>>

NextDate ==
    \/ CallGetDateRange
    \/ NextRange

SpecDate == InitDate /\ [][NextDate]_vars

DigitVal(c) == CHOOSE d \in 0..9 : Digits[d + 1] = c

IsDigits(s) == \A i \in 1..Len(s) : \E d \in 0..9 : Digits[d + 1] = s[i]

RECURSIVE NumOf(_)
NumOf(s) ==
    IF s = <<>> THEN 0
    ELSE 10 * NumOf(SubSeq(s, 1, Len(s) - 1)) + DigitVal(s[Len(s)])

\* a 10-character date YYYY-MM-DD: month 01-12, day 01-31
IsYMD(s) ==
    /\ Len(s) = 10
    /\ s[5] = "-" /\ s[8] = "-"
    /\ IsDigits(SubSeq(s, 1, 4))
    /\ IsDigits(SubSeq(s, 6, 7))
    /\ IsDigits(SubSeq(s, 9, 10))
    /\ NumOf(SubSeq(s, 6, 7)) \in 1..12
    /\ NumOf(SubSeq(s, 9, 10)) \in 1..31

\* the calendar date <<year, month, day>> of a time value (UTC)
CalendarDate(t) == <<YearFromDay(t.day), MonthFromDay(t.day) + 1,
                     DateFromDay(t.day)>>

ReadYMD(s) == <<NumOf(SubSeq(s, 1, 4)), NumOf(SubSeq(s, 6, 7)),
                NumOf(SubSeq(s, 9, 10))>>

YearInRange(t) == t.valid /\ YearFromDay(t.day) \in 0..9999

\* C2 as stated: every call of getDateRange returns an object with exactly
\* the fields start_time and end_time, each a 10-character YYYY-MM-DD date.
C2_Original ==
    range # NotCalled =>
        /\ range.kind = "return"
        /\ DOMAIN range.value = {"start_time", "end_time"}
        /\ IsYMD(range.value.start_time)
        /\ IsYMD(range.value.end_time)

\* C2 (amended): when both dates of getDateRange(days) are valid dates
\* whose UTC year lies in 0000..9999, the result is an object with exactly
\* the fields start_time and end_time, each the UTC calendar date of its
\* date as a 10-character YYYY-MM-DD string without time of day.
C2_DateFormat ==
    (/\ range # NotCalled
     /\ YearInRange(StartDate(days, now, tz))
     /\ YearInRange(EndDate(now))) =>
        /\ range.kind = "return"
        /\ DOMAIN range.value = {"start_time", "end_time"}
        /\ IsYMD(range.value.start_time)
        /\ IsYMD(range.value.end_time)
        /\ ReadYMD(range.value.start_time)
             = CalendarDate(StartDate(days, now, tz))
        /\ ReadYMD(range.value.end_time) = CalendarDate(EndDate(now))

C2_Witness ==
    /\ days = JsUndefined
    /\ now.t = TV(19783, msPerDay - 1)
    /\ range.kind = "return"
    /\ range.value.end_time = <<"2", "0", "2", "4", "-", "0", "3", "-", "0", "1">>
    /\ range.value.start_time = <<"2", "0", "2", "4", "-", "0", "1", "-", "3", "1">>

\* day number of a date string as toISOString writes it (4-digit year, or
\* a sign and a 6-digit year)
DayOfString(s) ==
    LET signed == s[1] \in {"+", "-"}
        off    == IF signed THEN 3 ELSE 0
        ynum   == IF signed THEN NumOf(SubSeq(s, 2, 7)) ELSE NumOf(SubSeq(s, 1, 4))
        y      == IF s[1] = "-" THEN -ynum ELSE ynum
        m      == NumOf(SubSeq(s, 6 + off, 7 + off))
        d      == NumOf(SubSeq(s, 9 + off, 10 + off))
    IN  DayFromYear(y) + MonthStartDay(m - 1, InLeapYear(y)) + d - 1

\* C3: every window getDateRange(days) returns has start < end, for every
\* days (the default, 0 and negative values included).
C3_StartBeforeEnd ==
    range.kind = "return" =>
        DayOfString(range.value.start_time) < DayOfString(range.value.end_time)

\* C9: for every non-negative integer days, every current instant (both
\* dates read the clock in the same millisecond) and every local offset (a
\* change of offset between the two dates included), end_time is exactly
\* `days` calendar days after start_time.
C9_ExactlyDaysApart ==
    (range.kind = "return" /\ days.kind = "number" /\ days.v >= 0
       /\ now.lag = 0) =>
        DayOfString(range.value.end_time)
          - DayOfString(range.value.start_time) = days.v

(***************************************************************************)
(* Metric Engine (efficiency_analyzer.py, declared by the README; its code  *)
(* is not part of the sources, the computation follows the design of the    *)
(* engine).  Ratios are exact fractions num/den with den > 0.               *)
(***************************************************************************)
MaxCount == 2
ScoreDen == 2

\* README: 综合效率指标（设备60%、人员25%、环境15%）, in percent
WeightEquipment_slip == 60 + 5
WeightEquipment   == 60
WeightPersonnel   == 25
WeightEnvironment == 15

Ratio(n, d) == [num |-> n, den |-> d]

Clamp01(r) ==
    IF r.num < 0 THEN Ratio(0, 1)
    ELSE IF r.num > r.den THEN Ratio(1, 1)
    ELSE r

Mul(a, b) == Ratio(a.num * b.num, a.den * b.den)

InUnit(r) == r.den > 0 /\ 0 <= r.num /\ r.num <= r.den

InsufficientData == [kind |-> "error", error |-> "InsufficientData"]

\* composite_efficiency of three sub-scores given in ScoreDen-ths
CompositeEfficiency(e, p, v) ==
    Ratio(WeightEquipment * e + WeightPersonnel * p + WeightEnvironment * v,
          100 * ScoreDen)

Result(r, a, p, q, u) ==
    [kind |-> "result",
     availability |-> a, performance |-> p, quality |-> q,
     oee  |-> Mul(Mul(a, p), q),
     teep |-> Mul(Mul(Mul(a, p), q), u),
     composite_efficiency |->
         CompositeEfficiency(r.equipment_score, r.personnel_score,
                             r.environment_score),
     record_count |-> r.records]

\* the engine without the guard of the performance division
MetricEngine_unguarded(r) ==
    IF r.records = 0 \/ r.planned_production_time = 0 THEN InsufficientData
    ELSE IF r.total_count = 0 THEN InsufficientData
    ELSE IF r.total_calendar_time = 0 THEN InsufficientData
    ELSE Result(r,
            Clamp01(Ratio(r.actual_run_time, r.planned_production_time)),
            IF r.actual_run_time = 0 THEN Ratio(0, 1)
            ELSE Clamp01(Ratio(r.ideal_cycle_time * r.total_count,
                               r.actual_run_time)),
            Ratio(r.good_count, r.total_count),
            Ratio(r.planned_production_time, r.total_calendar_time))

\* one unit over one window: every division guards its denominator
MetricEngine(r) ==
    IF r.records = 0 \/ r.planned_production_time = 0 THEN InsufficientData
    ELSE IF r.actual_run_time = 0 THEN InsufficientData
    ELSE IF r.total_count = 0 THEN InsufficientData
    ELSE IF r.total_calendar_time = 0 THEN InsufficientData
    ELSE Result(r,
            Clamp01(Ratio(r.actual_run_time, r.planned_production_time)),
            Clamp01(Ratio(r.ideal_cycle_time * r.total_count,
                          r.actual_run_time)),
            Ratio(r.good_count, r.total_count),
            Ratio(r.planned_production_time, r.total_calendar_time))

\* the aggregated inputs of a window; a window without records sums to zero
WindowInputs ==
    { r \in [records : 0..1,
             planned_production_time : 0..MaxCount,
             actual_run_time : 0..MaxCount,
             ideal_cycle_time : 1..2,
             total_count : 0..MaxCount,
             good_count : 0..MaxCount,
             total_calendar_time : 0..MaxCount,
             equipment_score : 0..ScoreDen,
             personnel_score : 0..ScoreDen,
             environment_score : 0..ScoreDen] :
        r.records = 0 =>
            /\ r.planned_production_time = 0 /\ r.actual_run_time = 0
            /\ r.total_count = 0 /\ r.good_count = 0
            /\ r.ideal_cycle_time = 1 }

MetricPending == [kind |-> "idle"]

InitMetric ==
    /\ rec \in WindowInputs
    /\ metric = MetricPending
    /\ ClassifyIdle /\ DateIdle /\ BatchIdle

ComputeMetrics ==
    /\ metric = MetricPending
    /\ metric' = MetricEngine(rec)
    /\ UNCHANGED <<rec, classifyVars, dateVars, batchVars>>

NextMetric == ComputeMetrics

SpecMetric == InitMetric /\ [][NextMetric]_vars

Min3(a, b, c) == CHOOSE m \in {a, b, c} : \A x \in {a, b, c} : m <= x
Max3(a, b, c) == CHOOSE m \in {a, b, c} : \A x \in {a, b, c} : m >= x

\* C4: the weights 0.60, 0.25, 0.15 sum to 1.0, and composite_efficiency
\* of sub-scores in [0,1] is a convex combination: it lies between the
\* least and the greatest sub-score, hence in [0,1].
C4_ConvexCombination ==
    /\ WeightEquipment + WeightPersonnel + WeightEnvironment = 100
    /\ metric.kind = "result" =>
        LET c  == metric.composite_efficiency
            lo == Min3(rec.equipment_score, rec.personnel_score,
                       rec.environment_score)
            hi == Max3(rec.equipment_score, rec.personnel_score,
                       rec.environment_score)
        IN  /\ c.num = 60 * rec.equipment_score + 25 * rec.personnel_score
                         + 15 * rec.environment_score
            /\ lo * c.den <= c.num * ScoreDen
            /\ c.num * ScoreDen <= hi * c.den
            /\ InUnit(c)

C4_Witness ==
    /\ metric.kind = "result"
    /\ rec.equipment_score = ScoreDen
    /\ rec.personnel_score = 0
    /\ rec.environment_score = 1
    /\ metric.composite_efficiency.num = 60 * ScoreDen + 15

\* C5: every ratio of a MetricResult (availability, performance, quality,
\* oee, teep, composite_efficiency) lies in [0,1].
C5_RatiosInUnit ==
    metric.kind = "result" =>
        /\ InUnit(metric.availability)
        /\ InUnit(metric.performance)
        /\ InUnit(metric.quality)
        /\ InUnit(metric.oee)
        /\ InUnit(metric.teep)
        /\ InUnit(metric.composite_efficiency)

ZeroDenominator(r) ==
    \/ r.records = 0
    \/ r.planned_production_time = 0
    \/ r.total_count = 0
    \/ r.actual_run_time = 0
    \/ r.total_calendar_time = 0

\* C6: when a denominator is zero (planned_production_time, total_count,
\* actual_run_time, total_calendar_time) or no record falls in the window,
\* the outcome is InsufficientData and no MetricResult is produced; a
\* MetricResult only holds fractions with a positive denominator.
C6_GuardedDivisions ==
    metric # MetricPending =>
        /\ ZeroDenominator(rec) => metric = InsufficientData
        /\ metric.kind = "result" =>
              /\ metric.availability.den > 0 /\ metric.performance.den > 0
              /\ metric.quality.den > 0 /\ metric.oee.den > 0
              /\ metric.teep.den > 0

C6_Witness ==
    /\ rec.records = 1
    /\ rec.planned_production_time = 1
    /\ rec.total_count = 1
    /\ rec.total_calendar_time = 1
    /\ rec.actual_run_time = 0
    /\ metric = InsufficientData

(***************************************************************************)
(* Batch pipeline (data_processor.py then efficiency_analyzer.py, declared  *)
(* by the README; their code is not part of the sources): every raw record  *)
(* is normalised, then every window is computed, then the report is final.  *)
(***************************************************************************)
MaxBatch   == 3
NumWindows == 2

\* raw records: a record of the right shape carries its run time and its
\* count (0 or 1 each); a faulty one fails normalisation
RawRecords ==
    [window : 1..NumWindows, fault : {"none"}, run : 0..1, count : 0..1]
    \cup [window : 1..NumWindows,
          fault : {"SchemaMismatch", "ImputationExhausted"},
          run : {0}, count : {0}]

\* ImputationExhausted is treated as SchemaMismatch
NormalizeOutcome(raw) ==
    IF raw.fault = "none" THEN "ok" ELSE "SchemaMismatch"

RECURSIVE SumOver(_, _, _)
SumOver(b, S, field) ==
    IF S = {} THEN 0
    ELSE LET i == CHOOSE j \in S : TRUE
         IN  b[i][field] + SumOver(b, S \ {i}, field)

\* inputs of window w summed over the normalised records that fall in it
WindowRecord(b, done, w) ==
    LET S == {i \in done : b[i].window = w} IN
    [records |-> Cardinality(S),
     planned_production_time |-> SumOver(b, S, "run"),
     actual_run_time |-> SumOver(b, S, "run"),
     ideal_cycle_time |-> 1,
     total_count |-> SumOver(b, S, "count"),
     good_count |-> SumOver(b, S, "count"),
     total_calendar_time |-> MaxBatch,
     equipment_score |-> ScoreDen,
     personnel_score |-> ScoreDen,
     environment_score |-> ScoreDen]

Pending == [kind |-> "pending"]

InitBatch ==
    /\ batch \in [1..MaxBatch -> RawRecords]
    /\ pc = "normalize"
    /\ idx = 1
    /\ normalized = {}
    /\ report = [gaps |-> {}, windows |-> [w \in 1..NumWindows |-> Pending]]
    /\ ClassifyIdle /\ DateIdle /\ MetricIdle

\* a record that fails is skipped with its reason, the batch goes on
NormalizeRecord_abort ==
    /\ pc = "normalize"
    /\ idx <= Len(batch)
    /\ IF NormalizeOutcome(batch[idx]) = "ok"
       THEN /\ normalized' = normalized \cup {idx}
            /\ idx' = idx + 1
            /\ UNCHANGED report
       ELSE /\ report' = [report EXCEPT !.gaps = @ \cup
                            {[record |-> idx,
                              reason |-> NormalizeOutcome(batch[idx])]}]
            /\ idx' = Len(batch) + 1
            /\ UNCHANGED normalized
    /\ UNCHANGED <<batch, pc, classifyVars, dateVars, metricVars>>

NormalizeRecord ==
    /\ pc = "normalize"
    /\ idx <= Len(batch)
    /\ IF NormalizeOutcome(batch[idx]) = "ok"
       THEN /\ normalized' = normalized \cup {idx}
            /\ UNCHANGED report
       ELSE /\ report' = [report EXCEPT !.gaps = @ \cup
                            {[record |-> idx,
                              reason |-> NormalizeOutcome(batch[idx])]}]
            /\ UNCHANGED normalized
    /\ idx' = idx + 1
    /\ UNCHANGED <<batch, pc, classifyVars, dateVars, metricVars>>

BeginMetrics ==
    /\ pc = "normalize"
    /\ idx > Len(batch)
    /\ pc' = "compute"
    /\ idx' = 1
    /\ UNCHANGED <<batch, normalized, report, classifyVars, dateVars,
                   metricVars>>

\* a window that fails is reported as a gap, the other windows go on
ComputeWindow ==
    /\ pc = "compute"
    /\ idx <= NumWindows
    /\ report' = [report EXCEPT !.windows[idx] =
                      MetricEngine(WindowRecord(batch, normalized, idx))]
    /\ idx' = idx + 1
    /\ UNCHANGED <<batch, pc, normalized, classifyVars, dateVars, metricVars>>

FinishReport ==
    /\ pc = "compute"
    /\ idx > NumWindows
    /\ pc' = "done"
    /\ UNCHANGED <<batch, idx, normalized, report, classifyVars, dateVars,
                   metricVars>>

NextBatch ==
    \/ NormalizeRecord
    \/ BeginMetrics
    \/ ComputeWindow
    \/ FinishReport

SpecBatch == InitBatch /\ [][NextBatch]_vars

Sound(b) == {i \in 1..Len(b) : b[i].fault = "none"}

Computable(b, w) ==
    /\ \E i \in Sound(b) : b[i].window = w /\ b[i].run > 0
    /\ \E i \in Sound(b) : b[i].window = w /\ b[i].count > 0

\* C7: failures are isolated and never masked: in the final report every
\* record that fails normalisation is skipped and listed as a gap while
\* every other record is normalised, every window that can be computed
\* has its MetricResult whatever happened to the others, and every window
\* that cannot is the explicit gap InsufficientData, never a zero.
C7_FailuresIsolated ==
    pc = "done" =>
        /\ normalized = Sound(batch)
        /\ report.gaps = {[record |-> i, reason |-> "SchemaMismatch"] :
                             i \in (1..Len(batch)) \ Sound(batch)}
        /\ \A w \in 1..NumWindows :
              /\ Computable(batch, w) => report.windows[w].kind = "result"
              /\ ~Computable(batch, w) => report.windows[w] = InsufficientData

C7_Witness ==
    /\ pc = "done"
    /\ batch[1].fault = "SchemaMismatch"
    /\ batch[2].fault = "none" /\ batch[2].window = 1
    /\ 2 \in normalized
    /\ [record |-> 1, reason |-> "SchemaMismatch"] \in report.gaps
    /\ report.windows[1].kind = "result"
    /\ report.windows[2] = InsufficientData

====
